---------------------------- MODULE Spec2Model ----------------------------
(***************************************************************************)
(* Model of the text-selection -> translation-popup pipeline of the PDF    *)
(* viewer: PdfViewer's debounced selection tracker, TranslationPopup's     *)
(* dismissal and reset-on-close effect, the useTranslation hook, and the   *)
(* translateText API client with its zod schemas.                          *)
(*                                                                         *)
(* Strings that the code trims, splits or measures are sequences of        *)
(* one-character strings.  Error messages are sequences of words so that   *)
(* String.prototype.includes can be computed.  Translations are atomic     *)
(* strings.  One step of the model is one browser task run to completion:  *)
(* the event handler, the re-render it causes and the effects of that      *)
(* commit, in the order React runs them.                                   *)
(***************************************************************************)
EXTENDS Integers, Sequences, FiniteSets, Bags, TLC

VARIABLES
    liveSelection,      \* window.getSelection().toString()
    selectionTimeout,   \* selectionTimeoutRef.current: a timer handle, 0 for null
    timers,             \* the handles of the timers that are pending
    selectedText,       \* PdfViewer state: the bound phrase
    showPopup,          \* PdfViewer state
    translation,        \* useTranslation state
    isLoading,          \* useTranslation state
    error,              \* useTranslation state
    ankiStatus,         \* useTranslation state
    inflight,           \* bag of the hook's fetch calls not yet settled, by bound phrase
    apiCall,            \* the translateText call in progress or finished
    mounted,            \* PdfViewer is mounted
    popup,              \* a TranslationPopup followed for its position: props and state
    pageNumber,         \* PdfViewer state
    numPages,           \* PdfViewer state, 0 for null
    scale,              \* PdfViewer state, in hundredths
    storage,            \* localStorage: key -> string, or null
    dismissed,          \* history: the popup is hidden since its close button was
                        \* clicked, and the selection in the page is the one of then
    app,                \* App: its mount, its theme hook, the telegramApp module
    host                \* the browser and window.Telegram.WebApp, when there is one

documentVars == <<pageNumber, numPages, scale, storage>>

hostVars == <<app, host>>

vars == <<liveSelection, selectionTimeout, timers, selectedText, showPopup,
          translation, isLoading, error, ankiStatus, inflight, apiCall,
          mounted, popup, documentVars, dismissed, hostVars>>

\* what the selection and the translation have no part in
restVars == <<apiCall, mounted, popup, documentVars, hostVars>>

\* what the steps of the selection and of the translation leave alone
sideVars == <<restVars, dismissed>>

hookVars == <<translation, isLoading, error, ankiStatus>>

viewerVars == <<liveSelection, selectionTimeout, timers, selectedText, showPopup>>

-----------------------------------------------------------------------------
(* Bounds *)

MaxLen == 2          \* longest live selection, in characters

MaxInFlight == 2     \* most fetch calls of the hook outstanding at once

MaxWords == 12       \* most words of a long selection

(* Program constants *)

WordLimit == 10

-----------------------------------------------------------------------------
(* JavaScript values *)

Null == <<"<null>">>             \* null, where a message may stand

UndefinedMsg == <<"<undefined>">>   \* undefined, where a message may stand

Undefined == "<undefined>"       \* undefined, where an atomic string may stand

NoAnki == [null |-> TRUE]        \* ankiStatus === null

Alphabet == {"a", " "}

Strings == UNION {[1..k -> Alphabet] : k \in 0..MaxLen}

\* truthiness of a message value
TruthyMsg(m) == m # Null /\ m # UndefinedMsg /\ m # <<>>

\* truthiness of an atomic string value
Truthy(s) == s # Undefined /\ s # ""

\* String.prototype.includes, on messages, at the granularity of words
Includes(m, w) == \E i \in DOMAIN m : m[i] = w

RECURSIVE TrimStart(_)
TrimStart(s) ==
    IF s # <<>> /\ Head(s) = " " THEN TrimStart(Tail(s)) ELSE s

RECURSIVE TrimEnd(_)
TrimEnd(s) ==
    IF s # <<>> /\ s[Len(s)] = " " THEN TrimEnd(SubSeq(s, 1, Len(s) - 1)) ELSE s

\* String.prototype.trim
Trim(s) == TrimEnd(TrimStart(s))

\* the first word of s (s starts with a non-space) and what follows it
RECURSIVE WordLen(_)
WordLen(s) ==
    IF s = <<>> \/ Head(s) = " " THEN 0 ELSE 1 + WordLen(Tail(s))

\* text.split(/\s+/) of a trimmed string
RECURSIVE SplitWs(_)
SplitWs(s) ==
    IF s = <<>> THEN << <<>> >>
    ELSE LET n == WordLen(s)
             rest == TrimStart(SubSeq(s, n + 1, Len(s)))
         IN  IF n = Len(s) THEN << s >>
             ELSE << SubSeq(s, 1, n) >> \o SplitWs(rest)

\* words.slice(0) in place of words.slice(0, n)
Slice_NoLimit(words, n) == words

\* words.slice(0, n)
Slice(words, n) == SubSeq(words, 1, IF Len(words) < n THEN Len(words) ELSE n)

\* words.join(' ')
RECURSIVE JoinSp(_)
JoinSp(words) ==
    IF words = <<>> THEN <<>>
    ELSE IF Len(words) = 1 THEN words[1]
    ELSE words[1] \o <<" ">> \o JoinSp(Tail(words))

\* PdfViewer: limitedText
LimitedText(text) == JoinSp(Slice(SplitWs(text), WordLimit))

-----------------------------------------------------------------------------
(* What the network can answer to the hook's fetch *)

ConnectMessage == <<"Cannot", "connect", "to", "translation", "service">>

GenericMessage == <<"Translation", "failed">>

\* err.message of a rejected fetch
RejectMessages == {<<"Failed", "to", "fetch">>, <<"Load", "failed">>, <<>>}

\* errorData.message of a non-ok response ({} when the body is not JSON)
ErrorDataMessages ==
    {UndefinedMsg, <<"Quota", "exceeded">>, <<"Upstream", "network", "timeout">>}

\* data.translation of an ok response
TranslationValues == {Undefined, "privet"}

\* data.ankiStatus of an ok response
AnkiStatusValues == {Undefined, "added"}

\* data.ankiError of an ok response
AnkiErrorValues == {Undefined, "deck not found"}

Rejections == [type : {"reject"}, message : RejectMessages]

ErrorResponses ==
    [type : {"response"}, ok : {FALSE}, status : {"500"},
     statusText : {<<"Internal", "Server", "Error">>},
     message : ErrorDataMessages]

OkResponses ==
    [type : {"response"}, ok : {TRUE}, json : {TRUE},
     translation : TranslationValues, ankiStatus : AnkiStatusValues,
     ankiNoteId : {"note17"}, ankiError : AnkiErrorValues]

\* an ok response whose body is not JSON: response.json() rejects
BadJsonResponses ==
    {[type |-> "response", ok |-> TRUE, json |-> FALSE,
      message |-> <<"Unexpected", "token">>]}

Outcomes == Rejections \cup ErrorResponses \cup OkResponses \cup BadJsonResponses

-----------------------------------------------------------------------------
(* useTranslation *)

\* the hook's state as one value, so that effects compose
Hook == [translation |-> translation, isLoading |-> isLoading, error |-> error,
         ankiStatus |-> ankiStatus, inflight |-> inflight]

\* ResetOnTextChange without its setTranslation('')
ResetOnTextChange_KeepsResult(h) ==
    [h EXCEPT !.error = Null, !.ankiStatus = NoAnki]

\* the effect on [text]
ResetOnTextChange(h) ==
    [h EXCEPT !.translation = "", !.error = Null, !.ankiStatus = NoAnki]

\* TranslateStart without its setError(null)
TranslateStart_KeepsError(h, text) ==
    IF text = <<>> \/ Len(Trim(text)) = 0 THEN h
    ELSE [h EXCEPT !.isLoading = TRUE, !.ankiStatus = NoAnki,
                   !.inflight = @ (+) SetToBag({[text |-> text, body |-> Trim(text)]})]

\* translate(), up to its first await; text is the phrase the closure holds
TranslateStart(h, text) ==
    IF text = <<>> \/ Len(Trim(text)) = 0 THEN h
    ELSE [h EXCEPT !.isLoading = TRUE, !.error = Null, !.ankiStatus = NoAnki,
                   !.inflight = @ (+) SetToBag({[text |-> text, body |-> Trim(text)]})]

\* the catch block's message
FormatError(message) ==
    IF TruthyMsg(message)
    THEN IF Includes(message, "fetch") \/ Includes(message, "network")
         THEN ConnectMessage
         ELSE message
    ELSE GenericMessage

\* new Error(errorData.message || `HTTP ${status}: ${statusText}`).message
HttpErrorMessage(o) ==
    IF TruthyMsg(o.message) THEN o.message
    ELSE <<"HTTP", o.status \o ":">> \o o.statusText

\* the message of what the try block throws on outcome o (o is not an ok JSON body)
ThrownMessage(o) ==
    IF o.type = "reject" THEN o.message
    ELSE IF ~o.ok THEN HttpErrorMessage(o)
    ELSE o.message

\* the Anki branch of the try block
AnkiOf(h, o) ==
    IF o.ankiStatus = "added" THEN [success |-> TRUE, noteId |-> o.ankiNoteId]
    ELSE IF Truthy(o.ankiError) THEN [success |-> FALSE, error |-> o.ankiError]
    ELSE h.ankiStatus

\* TranslateSettle with a catch block that calls translate() again
TranslateSettle_RetriesOnFailure(h, r, o) ==
    LET rest == [h EXCEPT !.inflight = @ (-) SetToBag({r}), !.isLoading = FALSE]
    IN  IF o.type = "response" /\ o.ok /\ o.json
        THEN [rest EXCEPT !.translation = o.translation, !.ankiStatus = AnkiOf(h, o)]
        ELSE TranslateStart([rest EXCEPT !.error = FormatError(ThrownMessage(o))],
                            r.text)

\* TranslateSettle without the finally block's setIsLoading(false)
TranslateSettle_KeepsLoading(h, r, o) ==
    LET rest == [h EXCEPT !.inflight = @ (-) SetToBag({r})]
    IN  IF o.type = "response" /\ o.ok /\ o.json
        THEN [rest EXCEPT !.translation = o.translation, !.ankiStatus = AnkiOf(h, o)]
        ELSE [rest EXCEPT !.error = FormatError(ThrownMessage(o))]

\* translate(), from the settling of its fetch r with outcome o to its end
TranslateSettle(h, r, o) ==
    LET rest == [h EXCEPT !.inflight = @ (-) SetToBag({r}), !.isLoading = FALSE]
    IN  IF o.type = "response" /\ o.ok /\ o.json
        THEN [rest EXCEPT !.translation = o.translation, !.ankiStatus = AnkiOf(h, o)]
        ELSE [rest EXCEPT !.error = FormatError(ThrownMessage(o))]

\* ResetHook without its setIsLoading(false)
ResetHook_KeepsLoading(h) ==
    [h EXCEPT !.translation = "", !.error = Null, !.ankiStatus = NoAnki]

\* reset()
ResetHook(h) ==
    [h EXCEPT !.translation = "", !.error = Null, !.isLoading = FALSE,
              !.ankiStatus = NoAnki]

\* AutoTranslate without its test of enabled
AutoTranslate_IgnoresEnabled(h, enabled, text) ==
    IF text # <<>> THEN TranslateStart(h, text) ELSE h

\* the effect on [enabled, text, translate]
AutoTranslate(h, enabled, text) ==
    IF enabled /\ text # <<>> THEN TranslateStart(h, text) ELSE h

\* TranslationPopup's effect on [show, reset]
ResetOnClose(h, show) == IF ~show THEN ResetHook(h) ELSE h

\* The effects of the commit that takes the props from (text0, show0) to
\* (text1, show1), in the order of their declaration: the hook's two effects,
\* then the popup's reset-on-close effect.  An effect runs when one of its
\* dependencies changed.
CommitEffects(h, text0, show0, text1, show1) ==
    LET h1 == IF text1 # text0 THEN ResetOnTextChange(h) ELSE h
        h2 == IF text1 # text0 \/ show1 # show0
              THEN AutoTranslate(h1, show1, text1) ELSE h1
        h3 == IF show1 # show0 THEN ResetOnClose(h2, show1) ELSE h2
    IN  h3

\* the hook's variables take the values of h
SetHook(h) ==
    /\ translation' = h.translation
    /\ isLoading' = h.isLoading
    /\ error' = h.error
    /\ ankiStatus' = h.ankiStatus
    /\ inflight' = h.inflight
    /\ BagCardinality(h.inflight) <= MaxInFlight

-----------------------------------------------------------------------------
(* PdfViewer and TranslationPopup *)

\* the user changes the selection in the page
Select(s) ==
    /\ liveSelection # s
    /\ liveSelection' = s
    /\ dismissed' = FALSE
    /\ UNCHANGED <<selectionTimeout, timers, selectedText, showPopup, hookVars,
                   inflight, restVars>>

\* clearTimeout without effect
ClearTimeout_Noop(pending, id) == pending

\* clearTimeout(id): the timer id is no longer pending (nothing happens when it
\* is not pending)
ClearTimeout(pending, id) == pending \ {id}

\* the handle setTimeout returns: handles are opaque, the least one that names
\* no pending timer stands for a new one
SetTimeout(pending) ==
    CHOOSE id \in 1..(Cardinality(pending) + 1) :
        /\ id \notin pending
        /\ \A other \in 1..(id - 1) : other \in pending

\* handleTextSelection, on mouseup or touchend
HandleTextSelection ==
    /\ mounted
    /\ LET cleared == IF selectionTimeout # 0
                      THEN ClearTimeout(timers, selectionTimeout) ELSE timers
           id == SetTimeout(cleared)
       IN  /\ selectionTimeout' = id
           /\ timers' = cleared \cup {id}
    /\ UNCHANGED <<liveSelection, selectedText, showPopup, hookVars, inflight,
                   sideVars>>

\* the callback of timer id, with the re-render and the effects that follow it
SelectionTimerFires(id) ==
    /\ id \in timers
    /\ timers' = timers \ {id}
    /\ UNCHANGED selectionTimeout
    /\ LET text == Trim(liveSelection)
           text1 == IF Len(text) > 0 THEN LimitedText(text) ELSE selectedText
           show1 == Len(text) > 0
       IN  /\ selectedText' = text1
           /\ showPopup' = show1
           /\ SetHook(CommitEffects(Hook, selectedText, showPopup, text1, show1))
           /\ dismissed' = (dismissed /\ ~show1)
    /\ UNCHANGED <<liveSelection, restVars>>

\* setShowPopup(false), with the re-render and the effects that follow it
HidePopup ==
    /\ showPopup' = FALSE
    /\ SetHook(CommitEffects(Hook, selectedText, showPopup, selectedText, FALSE))
    /\ UNCHANGED <<liveSelection, selectionTimeout, timers, selectedText, restVars>>

\* onClose
OnClose ==
    /\ HidePopup
    /\ UNCHANGED dismissed

\* the popup is in the document
Rendered == showPopup /\ selectedText # <<>>

\* The translation area of the popup: what each of its four conditional blocks
\* and the Anki badge inside the translation block render.  error is a message or
\* null, translation a string or undefined, ankiStatus an object or null.
ShowsLoading == isLoading

ShowsError == ~isLoading /\ error # Null /\ error # << >>

\* ShowsTranslation without its !error
ShowsTranslation_IgnoresError == ~isLoading /\ Truthy(translation)

ShowsTranslation ==
    ~isLoading /\ ~(error # Null /\ error # << >>) /\ Truthy(translation)

ShowsPlaceholder ==
    ~isLoading /\ ~(error # Null /\ error # << >>) /\ ~Truthy(translation)

ShowsAnkiBadge == ShowsTranslation /\ ankiStatus # NoAnki

\* how many of the four blocks are rendered
BlocksShown ==
    Cardinality({b \in {"loading", "error", "translation", "placeholder"} :
        \/ b = "loading" /\ ShowsLoading
        \/ b = "error" /\ ShowsError
        \/ b = "translation" /\ ShowsTranslation
        \/ b = "placeholder" /\ ShowsPlaceholder})

\* ClosesOnClick without its look at the selection
ClosesOnClick_IgnoresSelection(inside, selection) == ~inside

\* handleClickOutside calls onClose: the target is not in the popup and the
\* selection is blank
ClosesOnClick(inside, selection) == ~inside /\ Len(Trim(selection)) = 0

\* handleClickOutside, on a mousedown outside the popup
ClickOutside ==
    /\ mounted
    /\ showPopup
    /\ Rendered
    /\ IF ClosesOnClick(FALSE, liveSelection)
       THEN OnClose
       ELSE UNCHANGED vars

\* handleClickOutside, on a mousedown inside the popup
ClickInside ==
    /\ mounted
    /\ showPopup
    /\ Rendered
    /\ IF ClosesOnClick(TRUE, liveSelection)
       THEN OnClose
       ELSE UNCHANGED vars

\* a close button that closes as a click outside does, when the selection is blank
CloseButton_OnlyWhenBlank ==
    /\ mounted
    /\ Rendered
    /\ IF Len(Trim(liveSelection)) = 0 THEN OnClose ELSE UNCHANGED vars

\* the close button: its onClick
CloseButton ==
    /\ mounted
    /\ Rendered
    /\ OnClose

\* A click on the close button with the pointer: the mousedown is inside the
\* popup and does nothing, the mouseup reaches the document's listener,
\* handleTextSelection, and the click that follows it calls onClose.
CloseClick ==
    /\ mounted
    /\ Rendered
    /\ LET cleared == IF selectionTimeout # 0
                      THEN ClearTimeout(timers, selectionTimeout) ELSE timers
           id == SetTimeout(cleared)
       IN  /\ selectionTimeout' = id
           /\ timers' = cleared \cup {id}
    /\ showPopup' = FALSE
    /\ SetHook(CommitEffects(Hook, selectedText, showPopup, selectedText, FALSE))
    /\ dismissed' = TRUE
    /\ UNCHANGED <<liveSelection, selectedText, restVars>>

\* retry() or translate(), called by the hook's user
Retry ==
    /\ mounted
    /\ SetHook(TranslateStart(Hook, selectedText))
    /\ UNCHANGED <<viewerVars, sideVars>>

\* reset(), called by the hook's user
Reset ==
    /\ mounted
    /\ SetHook(ResetHook(Hook))
    /\ UNCHANGED <<viewerVars, sideVars>>

\* the fetch r of the hook settles with outcome o
Settle(r, o) ==
    /\ mounted
    /\ BagIn(r, inflight)
    /\ SetHook(TranslateSettle(Hook, r, o))
    /\ UNCHANGED <<viewerVars, sideVars>>

\* the cleanup of the selection effect: the listeners are removed by the caller,
\* the timer whose handle the ref holds is cleared
SelectionCleanup(pending, ref) ==
    IF ref # 0 THEN ClearTimeout(pending, ref) ELSE pending

\* PdfViewer is unmounted: the cleanup runs and neither its listeners nor the
\* popup's are attached any more
Unmount ==
    /\ mounted
    /\ mounted' = FALSE
    /\ timers' = SelectionCleanup(timers, selectionTimeout)
    /\ UNCHANGED <<liveSelection, selectionTimeout, selectedText, showPopup, hookVars,
                   inflight, apiCall, popup, documentVars, dismissed, hostVars>>

\* isTelegram changes: the selection effect's cleanup runs, then the effect again
RerunSelectionEffect ==
    /\ mounted
    /\ timers' = SelectionCleanup(timers, selectionTimeout)
    /\ UNCHANGED <<liveSelection, selectionTimeout, selectedText, showPopup, hookVars,
                   inflight, sideVars>>

\* the fetch r settles after the unmount: the state updates of translate() are
\* dropped
SettleAfterUnmount(r) ==
    /\ ~mounted
    /\ BagIn(r, inflight)
    /\ inflight' = inflight (-) SetToBag({r})
    /\ UNCHANGED <<viewerVars, hookVars, sideVars>>

-----------------------------------------------------------------------------
(* TranslationPopup: the position adjustment *)

\* the margin the adjustment keeps to the viewport's edges, in px
Margin == 10

\* how far below the anchor the popup's bottom is put when it is flipped, in px
BelowOffset == 60

\* how far above the selection's top PdfViewer puts the anchor, in px
AnchorGap == 10

\* window.innerWidth and innerHeight
Viewports == {[width |-> 400, height |-> 600]}

\* the sizes the popup is measured with
PopupSizes == {[width |-> 200, height |-> 40], [width |-> 200, height |-> 200]}

\* range.getBoundingClientRect() of the selections made
SelectionRects ==
    [left : {0, 150, 345}, top : {15, 300, 580}, width : {100}]

\* a popup never shown: position and adjustedPosition are PdfViewer's initial
\* popupPosition
NoPopup ==
    [show |-> FALSE, position |-> [x |-> 0, y |-> 0],
     adjustedPosition |-> [x |-> 0, y |-> 0],
     size |-> [width |-> 200, height |-> 40],
     viewport |-> [width |-> 400, height |-> 600]]

\* popupRef.current.getBoundingClientRect(): the popup is drawn at at, moved by
\* transform: translate(-50%, -100%)
PopupRect(at, size) ==
    [left |-> at.x - size.width \div 2, right |-> at.x + size.width \div 2,
     top |-> at.y - size.height, bottom |-> at.y]

\* the anchor PdfViewer computes from the selection's rect
AnchorOf(sel) == [x |-> sel.left + sel.width \div 2, y |-> sel.top - AnchorGap]

\* The effect on [show, position], for a popup that is shown: rect is measured
\* on the popup as this commit rendered it, at the adjustedPosition it had.
AdjustedPosition(p, position, size, viewport) ==
    LET rect == PopupRect(p.adjustedPosition, size)
        x1 == IF rect.right > viewport.width - Margin
              THEN viewport.width - size.width \div 2 - Margin ELSE position.x
        newX == IF rect.left < Margin THEN size.width \div 2 + Margin ELSE x1
        y1 == IF rect.top < Margin THEN position.y + BelowOffset ELSE position.y
        newY == IF rect.bottom > viewport.height - Margin THEN position.y ELSE y1
    IN  [x |-> newX, y |-> newY]

\* PdfViewer shows the popup for a selection at sel: the popup is rendered with
\* show and a new position, measured with size in viewport, and its effect runs
PopupShownAt(sel, size, viewport) ==
    /\ mounted
    /\ popup' = [show |-> TRUE, position |-> AnchorOf(sel),
                 adjustedPosition |->
                     AdjustedPosition(popup, AnchorOf(sel), size, viewport),
                 size |-> size, viewport |-> viewport]
    /\ UNCHANGED <<viewerVars, hookVars, inflight, apiCall, mounted, documentVars,
                   dismissed, hostVars>>

\* PdfViewer hides the popup: it renders nothing, its effect returns at once
PopupHidden ==
    /\ mounted
    /\ popup.show
    /\ popup' = [popup EXCEPT !.show = FALSE]
    /\ UNCHANGED <<viewerVars, hookVars, inflight, apiCall, mounted, documentVars,
                   dismissed, hostVars>>

-----------------------------------------------------------------------------
(* PdfViewer: pages, zoom and their persistence *)

\* The scale is a double in the code; here it is counted in hundredths (1.2 is
\* 120), which the steps of 0.2 and the limits 0.5, 1.0 and 3.0 are multiples of.
ZoomStep == 20

MinScale == 50

MaxScale == 300

DefaultScale == 100

Min(a, b) == IF a < b THEN a ELSE b

Max(a, b) == IF a > b THEN a ELSE b

DigitChars == <<"0", "1", "2", "3", "4", "5", "6", "7", "8", "9">>

IsDigit(c) == \E d \in 1..10 : DigitChars[d] = c

DigitValue(c) == (CHOOSE d \in 1..10 : DigitChars[d] = c) - 1

\* n.toString() for an integer n >= 0
RECURSIVE NatToString(_)
NatToString(n) ==
    IF n < 10 THEN <<DigitChars[n + 1]>>
    ELSE NatToString(n \div 10) \o <<DigitChars[(n % 10) + 1]>>

\* the value of the longest prefix of digits of str, read from the left with
\* acc the value so far
RECURSIVE ReadDigits(_, _)
ReadDigits(str, acc) ==
    IF str = << >> \/ ~IsDigit(Head(str)) THEN acc
    ELSE ReadDigits(Tail(str), 10 * acc + DigitValue(Head(str)))

\* parseInt(str, 10), for a string that starts with a digit
ParseInt(str) == ReadDigits(str, 0)

\* scale.toString(): the integer part, then a point and the decimals without
\* trailing zeros when there are any
ScaleToString(s) ==
    LET whole == NatToString(s \div 100)
        cents == s % 100
    IN  IF cents = 0 THEN whole
        ELSE IF cents % 10 = 0 THEN whole \o <<".", DigitChars[(cents \div 10) + 1]>>
        ELSE whole \o <<".", DigitChars[(cents \div 10) + 1],
                             DigitChars[(cents % 10) + 1]>>

\* the characters of str after its first point, none when it has no point
RECURSIVE AfterPoint(_)
AfterPoint(str) ==
    IF str = << >> THEN << >>
    ELSE IF Head(str) = "." THEN Tail(str)
    ELSE AfterPoint(Tail(str))

\* parseFloat(str), in hundredths, for a string of at most two decimals
ParseFloat(str) ==
    LET decimals == AfterPoint(str)
        tenths == IF Len(decimals) >= 1 /\ IsDigit(decimals[1])
                  THEN DigitValue(decimals[1]) ELSE 0
        cents == IF Len(decimals) >= 2 /\ IsDigit(decimals[1]) /\ IsDigit(decimals[2])
                 THEN DigitValue(decimals[2]) ELSE 0
    IN  100 * ParseInt(str) + 10 * tenths + cents

\* the page counts of the documents that are opened
PageCounts == {1, 3, 12}

\* localStorage after the first mount on a browser that has stored nothing:
\* the two persistence effects have run
StorageAfterMount ==
    [scale |-> ScaleToString(DefaultScale), pageNumber |-> NatToString(1)]

\* the effect on [scale] without its setItem
SaveScale_Noop(store, s) == store

\* the effect on [scale]
SaveScale(store, s) == [store EXCEPT !.scale = ScaleToString(s)]

\* the effect on [pageNumber]
SavePageNumber(store, p) == [store EXCEPT !.pageNumber = NatToString(p)]

\* setScale and setPageNumber with the re-render and the effects that follow:
\* an effect runs when its value changed
SetDocument(p, s) ==
    /\ pageNumber' = p
    /\ scale' = s
    /\ storage' = LET saved == IF s # scale THEN SaveScale(storage, s) ELSE storage
                  IN  IF p # pageNumber THEN SavePageNumber(saved, p) ELSE saved

\* zoomIn's updater without its Math.min
ZoomedIn_Unclamped(prev) == prev + ZoomStep

ZoomedIn(prev) == Min(prev + ZoomStep, MaxScale)

ZoomedOut(prev) == Max(prev - ZoomStep, MinScale)

ZoomIn ==
    /\ mounted
    /\ SetDocument(pageNumber, ZoomedIn(scale))
    /\ UNCHANGED <<viewerVars, hookVars, inflight, apiCall, mounted, popup, numPages,
                   dismissed, hostVars>>

ZoomOut ==
    /\ mounted
    /\ SetDocument(pageNumber, ZoomedOut(scale))
    /\ UNCHANGED <<viewerVars, hookVars, inflight, apiCall, mounted, popup, numPages,
                   dismissed, hostVars>>

ResetZoom ==
    /\ mounted
    /\ SetDocument(pageNumber, DefaultScale)
    /\ UNCHANGED <<viewerVars, hookVars, inflight, apiCall, mounted, popup, numPages,
                   dismissed, hostVars>>

GoToPrevPage ==
    /\ mounted
    /\ SetDocument(Max(pageNumber - 1, 1), scale)
    /\ UNCHANGED <<viewerVars, hookVars, inflight, apiCall, mounted, popup, numPages,
                   dismissed, hostVars>>

\* goToNextPage's updater without its Math.min
GoToNextPage_NoLimit ==
    /\ mounted
    /\ SetDocument(pageNumber + 1, scale)
    /\ UNCHANGED <<viewerVars, hookVars, inflight, apiCall, mounted, popup, numPages,
                   dismissed, hostVars>>

GoToNextPage ==
    /\ mounted
    /\ SetDocument(Min(pageNumber + 1, IF numPages # 0 THEN numPages ELSE 1), scale)
    /\ UNCHANGED <<viewerVars, hookVars, inflight, apiCall, mounted, popup, numPages,
                   dismissed, hostVars>>

\* onFileChange, for a PDF file
OnFileChange ==
    /\ mounted
    /\ SetDocument(1, scale)
    /\ UNCHANGED <<viewerVars, hookVars, inflight, apiCall, mounted, popup, numPages,
                   dismissed, hostVars>>

\* OnDocumentLoadSuccess with a setShowPopup(false): a new document closes the
\* popup of the old one
OnDocumentLoadSuccess_HidesPopup(n) ==
    /\ mounted
    /\ numPages' = n
    /\ SetDocument(Min(Max(pageNumber, 1), n), scale)
    /\ showPopup' = FALSE
    /\ SetHook(CommitEffects(Hook, selectedText, showPopup, selectedText, FALSE))
    /\ UNCHANGED <<liveSelection, selectionTimeout, timers, selectedText, apiCall,
                   mounted, popup, dismissed, hostVars>>

\* onDocumentLoadSuccess({numPages: n})
OnDocumentLoadSuccess(n) ==
    /\ mounted
    /\ numPages' = n
    /\ SetDocument(Min(Max(pageNumber, 1), n), scale)
    /\ UNCHANGED <<viewerVars, hookVars, inflight, apiCall, mounted, popup,
                   dismissed, hostVars>>

-----------------------------------------------------------------------------
(* App, useTelegramTheme and the telegramApp module *)

NoThemeParams == [null |-> TRUE]     \* themeParams === null

ColorSchemes == {"light", "dark"}

\* tg.themeParams
ThemeParamsValues ==
    {[bg_color |-> "#ffffff", header_bg_color |-> Undefined],
     [bg_color |-> "#17212b", header_bg_color |-> "#232e3c"]}

\* tg.viewportStableHeight, 0 while the host has not told it
StableHeights == {0, 500}

\* window.innerHeight
InnerHeights == {600, 700}

\* Where the page is loaded: webApp says that window.Telegram.WebApp exists,
\* sdkLoaded is what isTelegramSDKLoaded() answers; the other fields are the
\* WebApp object's and the window's.
Hosts ==
    [webApp : BOOLEAN, sdkLoaded : BOOLEAN, colorScheme : ColorSchemes,
     themeParams : ThemeParamsValues, viewportStableHeight : StableHeights,
     viewportHeight : {0}, innerHeight : InnerHeights, prefersDark : BOOLEAN,
     headerColor : {Undefined}, backgroundColor : {Undefined}]

\* a desktop browser with a light colour scheme, without the Telegram script
BrowserHost ==
    [webApp |-> FALSE, sdkLoaded |-> FALSE, colorScheme |-> "light",
     themeParams |-> [bg_color |-> "#ffffff", header_bg_color |-> Undefined],
     viewportStableHeight |-> 0, viewportHeight |-> 0, innerHeight |-> 600,
     prefersDark |-> FALSE, headerColor |-> Undefined, backgroundColor |-> Undefined]

\* App before its first render: the initial values of its state and of the theme
\* hook's, the module variable tg, no listener, nothing set on the document.
\* themeChanged, viewportChanged and resize count the handlers subscribed.
NoApp ==
    [mounted |-> FALSE, tg |-> FALSE, colorScheme |-> "light",
     themeParams |-> NoThemeParams, themeChanged |-> 0, isTelegram |-> FALSE,
     viewportHeight |-> 0, cssHeight |-> 0, viewportChanged |-> 0, resize |-> 0,
     dark |-> FALSE]

\* the mount effect of useTelegramTheme
ThemeMountEffect(a, h) ==
    IF ~h.webApp
    THEN IF h.prefersDark THEN [a EXCEPT !.colorScheme = "dark"] ELSE a
    ELSE IF ~a.tg THEN a
    ELSE [a EXCEPT !.colorScheme = h.colorScheme, !.themeParams = h.themeParams,
                   !.themeChanged = @ + 1]

\* handleThemeChange
HandleThemeChange(a, h) ==
    [a EXCEPT !.colorScheme = h.colorScheme, !.themeParams = h.themeParams]

\* initTelegramApp(): the module variable, the host's colours, and its result
InitTelegramApp(a, h) ==
    IF h.webApp
    THEN [app |-> [a EXCEPT !.tg = TRUE],
          host |-> [h EXCEPT !.headerColor = "#1f2937",
                             !.backgroundColor = "#ffffff"],
          initialized |-> TRUE]
    ELSE [app |-> a, host |-> h, initialized |-> FALSE]

\* x || y on colours
OrElse(x, y) == IF Truthy(x) THEN x ELSE y

\* updateViewportHeight
UpdateViewportHeight(a, h) ==
    LET height == IF h.viewportStableHeight # 0 THEN h.viewportStableHeight
                  ELSE IF h.viewportHeight # 0 THEN h.viewportHeight
                  ELSE h.innerHeight
    IN  [a EXCEPT !.viewportHeight = height, !.cssHeight = height]

\* handleResize
HandleResize(a, h) ==
    [a EXCEPT !.viewportHeight = h.innerHeight, !.cssHeight = h.innerHeight]

\* App's effect on [themeParams]; params is the themeParams of the render the
\* effect belongs to
AppEffect(a, h, params) ==
    LET a1 == [a EXCEPT !.isTelegram = h.webApp]
        init == IF h.sdkLoaded THEN InitTelegramApp(a1, h)
                ELSE [app |-> a1, host |-> h, initialized |-> FALSE]
        coloured == IF params # NoThemeParams
                    THEN [init.host EXCEPT
                             !.headerColor = OrElse(params.header_bg_color, "#1f2937"),
                             !.backgroundColor = OrElse(params.bg_color, "#ffffff")]
                    ELSE init.host
    IN  IF init.initialized /\ h.webApp
        THEN [app |-> [UpdateViewportHeight(init.app, coloured)
                          EXCEPT !.viewportChanged = @ + 1],
              host |-> coloured]
        ELSE [app |-> [HandleResize(init.app, init.host) EXCEPT !.resize = @ + 1],
              host |-> init.host]

\* the cleanup AppEffect returned: it removes the listener it added
AppEffectCleanup(a) ==
    IF a.viewportChanged > 0 THEN [a EXCEPT !.viewportChanged = @ - 1]
    ELSE [a EXCEPT !.resize = @ - 1]

\* App's effect on [isDark]
ApplyTheme(a) == [a EXCEPT !.dark = (a.colorScheme = "dark")]

\* The re-render after the theme hook's state went from that of a0 to that of
\* a, and the effects of that commit: App's effect when themeParams changed, the
\* document's class when isDark did.
ThemeCommit(a0, a, h) ==
    LET run == IF a.themeParams # a0.themeParams
               THEN AppEffect(AppEffectCleanup(a), h, a.themeParams)
               ELSE [app |-> a, host |-> h]
    IN  [app |-> ApplyTheme(run.app), host |-> run.host]

\* The first render of App and its commit: the effects run in the order of the
\* hooks' calls, the theme hook's first, then the re-render their state
\* updates ask for.
Mounted(a, h) ==
    LET themed == ThemeMountEffect(a, h)
        run == AppEffect(themed, h, a.themeParams)
    IN  ThemeCommit(a, [run.app EXCEPT !.mounted = TRUE], run.host)

\* App after its mount in BrowserHost
AppInBrowser == Mounted(NoApp, BrowserHost).app

\* The page is loaded: App and PdfViewer inside it are mounted.  PdfViewer's
\* state initialisers read localStorage and its persistence effects run; its
\* selection effect runs again when isTelegram has become true.
AppMount ==
    /\ ~app.mounted
    /\ app' = Mounted(app, host).app
    /\ host' = Mounted(app, host).host
    /\ mounted' = TRUE
    /\ LET p == IF TruthyMsg(storage.pageNumber) THEN ParseInt(storage.pageNumber)
                ELSE 1
           s == IF TruthyMsg(storage.scale) THEN ParseFloat(storage.scale)
                ELSE DefaultScale
       IN  /\ pageNumber' = p
           /\ scale' = s
           /\ storage' = SavePageNumber(SaveScale(storage, s), p)
    /\ timers' = IF app'.isTelegram THEN SelectionCleanup(timers, selectionTimeout)
                 ELSE timers
    /\ UNCHANGED <<liveSelection, selectionTimeout, selectedText, showPopup, hookVars,
                   inflight, apiCall, popup, numPages, dismissed>>

\* the user changes the theme of Telegram: the WebApp object has the new values
\* when it calls the handlers of 'themeChanged'
HostThemeChanged(scheme, params) ==
    /\ host.webApp
    /\ <<scheme, params>> # <<host.colorScheme, host.themeParams>>
    /\ LET h == [host EXCEPT !.colorScheme = scheme, !.themeParams = params]
           done == IF app.themeChanged > 0
                   THEN ThemeCommit(app, HandleThemeChange(app, h), h)
                   ELSE [app |-> app, host |-> h]
       IN  /\ app' = done.app
           /\ host' = done.host
    /\ UNCHANGED <<viewerVars, hookVars, inflight, apiCall, mounted, popup,
                   documentVars, dismissed>>

\* Telegram changes the viewport and calls the handlers of 'viewportChanged'
HostViewportChanged(height) ==
    /\ host.webApp
    /\ height # host.viewportStableHeight
    /\ host' = [host EXCEPT !.viewportStableHeight = height]
    /\ app' = IF app.viewportChanged > 0 THEN UpdateViewportHeight(app, host')
              ELSE app
    /\ UNCHANGED <<viewerVars, hookVars, inflight, apiCall, mounted, popup,
                   documentVars, dismissed>>

\* the window is resized
WindowResize(height) ==
    /\ height # host.innerHeight
    /\ host' = [host EXCEPT !.innerHeight = height]
    /\ app' = IF app.resize > 0 THEN HandleResize(app, host') ELSE app
    /\ UNCHANGED <<viewerVars, hookVars, inflight, apiCall, mounted, popup,
                   documentVars, dismissed>>

\* The page handleTouchEnd goes to after a quick horizontal swipe, right when
\* the finger went to the right; pages is numPages, 0 for null.
SwipedPage(right, page, pages) ==
    IF right /\ page > 1 THEN Max(page - 1, 1)
    ELSE IF ~right /\ page < pages
         THEN Min(page + 1, IF pages # 0 THEN pages ELSE 1)
    ELSE page

\* The touchend of a horizontal swipe over the document, in Telegram: the
\* container's handleTouchEnd turns the page, and the document's listener,
\* handleTextSelection, starts the debounce.  The container is rendered while a
\* file is set, which it is from the mount on.
Swipe(right) ==
    /\ mounted
    /\ app.isTelegram
    /\ SetDocument(SwipedPage(right, pageNumber, numPages), scale)
    /\ LET cleared == IF selectionTimeout # 0
                      THEN ClearTimeout(timers, selectionTimeout) ELSE timers
           id == SetTimeout(cleared)
       IN  /\ selectionTimeout' = id
           /\ timers' = cleared \cup {id}
    /\ UNCHANGED <<liveSelection, selectedText, showPopup, hookVars, inflight, apiCall,
                   mounted, popup, numPages, dismissed, hostVars>>

-----------------------------------------------------------------------------
(* types/translation.js and api/translateApi.js *)

\* typeof v === 'string', for a value that is a string or undefined
IsString(v) == v # UndefinedMsg

\* RequestIssues with text: z.string() without its .min(1)
RequestIssues_NoTextMin(data) ==
    (IF ~IsString(data.text) THEN << <<"Required">> >> ELSE << >>)
    \o
    (IF ~IsString(data.source_lang) THEN << <<"Required">> >>
     ELSE IF Len(data.source_lang) # 2
          THEN << <<"Source", "language", "must", "be", "2", "characters">> >>
     ELSE << >>)
    \o
    (IF ~IsString(data.target_lang) THEN << <<"Required">> >>
     ELSE IF Len(data.target_lang) # 2
          THEN << <<"Target", "language", "must", "be", "2", "characters">> >>
     ELSE << >>)

\* the issues TranslationRequestSchema.parse(data) finds, in schema order
RequestIssues(data) ==
    (IF ~IsString(data.text) THEN << <<"Required">> >>
     ELSE IF Len(data.text) < 1 THEN << <<"Text", "cannot", "be", "empty">> >>
     ELSE << >>)
    \o
    (IF ~IsString(data.source_lang) THEN << <<"Required">> >>
     ELSE IF Len(data.source_lang) # 2
          THEN << <<"Source", "language", "must", "be", "2", "characters">> >>
     ELSE << >>)
    \o
    (IF ~IsString(data.target_lang) THEN << <<"Required">> >>
     ELSE IF Len(data.target_lang) # 2
          THEN << <<"Target", "language", "must", "be", "2", "characters">> >>
     ELSE << >>)

\* the issues TranslationResponseSchema.parse(data) finds
ResponseIssues(data) ==
    IF data.translation = Undefined THEN << <<"Required">> >> ELSE << >>

\* ZodError.message: the issues' messages, one after the other
RECURSIVE ZodMessage(_)
ZodMessage(issues) ==
    IF issues = << >> THEN << >> ELSE Head(issues) \o ZodMessage(Tail(issues))

\* what zod's parse returns for a valid object: the schema's keys only
ParsedRequest(data) ==
    [text |-> data.text, source_lang |-> data.source_lang,
     target_lang |-> data.target_lang]

ParsedResponse(data) ==
    [translation |-> data.translation, source_lang |-> data.source_lang,
     target_lang |-> data.target_lang]

TranslationApiError(message, statusCode) ==
    [name |-> "TranslationApiError", message |-> message, statusCode |-> statusCode]

\* the catch block of translateText, for an error that is no TranslationApiError
\* nor ZodError: e is [name, message]
CatchOther(e) ==
    IF e.name = "TypeError" /\ Includes(e.message, "fetch")
    THEN TranslationApiError(
            <<"Network", "error:", "Unable", "to", "reach", "translation", "service">>, 0)
    ELSE TranslationApiError(
            IF e.message # << >> THEN e.message ELSE <<"Unknown", "translation", "error">>,
            500)

CatchZod(issues) ==
    TranslationApiError(<<"Validation", "error:">> \o ZodMessage(issues), 400)

\* the arguments translateText is called with
LangValues == {UndefinedMsg, <<"e">>, <<"e", "n">>, <<"r", "u">>, <<"e", "n", "g">>}

ApiRequests ==
    [text : Strings \cup {UndefinedMsg}, source_lang : LangValues,
     target_lang : LangValues]

\* what the network can answer to translateText's fetch
ApiRejections ==
    [type : {"reject"}, name : {"TypeError"}, message : RejectMessages]

ApiErrorResponses ==
    [type : {"response"}, ok : {FALSE}, status : {404, 500},
     statusText : {<<"Internal", "Server", "Error">>, << >>}]

ApiOkResponses ==
    [type : {"response"}, ok : {TRUE}, json : {TRUE},
     translation : {Undefined, "", "privet"},
     source_lang : {Undefined, "en"}, target_lang : {Undefined, "ru"},
     ankiStatus : {Undefined, "added"}]

ApiBadJsonResponses ==
    {[type |-> "response", ok |-> TRUE, json |-> FALSE, name |-> "SyntaxError",
      message |-> <<"Unexpected", "token">>]}

ApiOutcomes ==
    ApiRejections \cup ApiErrorResponses \cup ApiOkResponses \cup ApiBadJsonResponses

\* translateText(request), up to its first await
TranslateTextStart(request) ==
    LET issues == RequestIssues(request)
    IN  IF issues # << >>
        THEN [phase |-> "rejected", request |-> request, sent |-> FALSE,
              error |-> CatchZod(issues)]
        ELSE [phase |-> "fetching", request |-> request, sent |-> TRUE,
              body |-> ParsedRequest(request)]

\* translateText, from the settling of its fetch with outcome o to its end
TranslateTextSettle(call, o) ==
    LET rejected(e) == [phase |-> "rejected", request |-> call.request,
                        sent |-> TRUE, error |-> e]
    IN  IF o.type = "reject" THEN rejected(CatchOther(o))
        ELSE IF ~o.ok
        THEN rejected(TranslationApiError(
                 <<"Translation", "failed:">> \o o.statusText, o.status))
        ELSE IF ~o.json THEN rejected(CatchOther(o))
        ELSE IF ResponseIssues(o) # << >> THEN rejected(CatchZod(ResponseIssues(o)))
        ELSE [phase |-> "resolved", request |-> call.request, sent |-> TRUE,
              value |-> ParsedResponse(o)]

NoCall == [phase |-> "none"]

\* a caller calls translateText(request)
TranslateText(request) ==
    /\ apiCall.phase = "none"
    /\ apiCall' = TranslateTextStart(request)
    /\ UNCHANGED <<viewerVars, hookVars, inflight, mounted, popup, documentVars,
                   dismissed, hostVars>>

\* the fetch of translateText settles
ApiSettle(o) ==
    /\ apiCall.phase = "fetching"
    /\ apiCall' = TranslateTextSettle(apiCall, o)
    /\ UNCHANGED <<viewerVars, hookVars, inflight, mounted, popup, documentVars,
                   dismissed, hostVars>>

\* the caller has taken the promise's result
ApiDone ==
    /\ apiCall.phase \in {"resolved", "rejected"}
    /\ apiCall' = NoCall
    /\ UNCHANGED <<viewerVars, hookVars, inflight, mounted, popup, documentVars,
                   dismissed, hostVars>>

-----------------------------------------------------------------------------


\* the state after the first mount, but for the selection in the page
InitButSelection ==
    /\ selectionTimeout = 0
    /\ timers = {}
    /\ selectedText = <<>>
    /\ showPopup = FALSE
    /\ translation = ""
    /\ isLoading = FALSE
    /\ error = Null
    /\ ankiStatus = NoAnki
    /\ inflight = EmptyBag
    /\ apiCall = NoCall
    /\ mounted = TRUE
    /\ popup = NoPopup
    /\ pageNumber = 1
    /\ numPages = 0
    /\ scale = 100
    /\ storage = StorageAfterMount
    /\ dismissed = FALSE
    /\ host = BrowserHost
    /\ app = AppInBrowser

Init ==
    /\ liveSelection = <<>>
    /\ InitButSelection

\* A selection of k words, with one space between them: the words in long are
\* "aa" and the others "a", the words in wide are followed by two spaces.
RECURSIVE WordsFrom(_, _, _, _)
WordsFrom(i, k, long, wide) ==
    LET word == IF i \in long THEN <<"a", "a">> ELSE <<"a">>
        gap == IF i \in wide THEN <<" ", " ">> ELSE <<" ">>
    IN  IF i > k THEN << >>
        ELSE IF i = k THEN word
        ELSE word \o gap \o WordsFrom(i + 1, k, long, wide)

\* selections of up to MaxWords words, some with spaces around them
LongSelections ==
    {lead \o WordsFrom(1, k, long, wide) \o trail :
        k \in 0..MaxWords, long \in SUBSET {1, WordLimit, WordLimit + 1},
        wide \in SUBSET {1, WordLimit},
        lead \in {<< >>, <<" ">>}, trail \in {<< >>, <<" ">>}}

\* a long selection is in the page when the viewer is mounted
InitWords ==
    /\ liveSelection \in LongSelections
    /\ InitButSelection

\* the selection in the page is read: mouseup, then the timer
NextWords ==
    \/ HandleTextSelection
    \/ \E id \in timers : SelectionTimerFires(id)

SpecWords == InitWords /\ [][NextWords]_vars

\* the application as it is wired: TranslationPopup calls neither retry nor
\* translate, and reset only from its effect
NextApp ==
    \/ \E s \in Strings : Select(s)
    \/ HandleTextSelection
    \/ \E id \in timers : SelectionTimerFires(id)
    \/ ClickOutside
    \/ ClickInside
    \/ CloseButton
    \/ \E r \in BagToSet(inflight) : \E o \in Outcomes : Settle(r, o)

SpecApp == Init /\ [][NextApp]_vars

\* the application, its popup closed by clicks on the close button
NextClose ==
    \/ \E s \in Strings : Select(s)
    \/ HandleTextSelection
    \/ \E id \in timers : SelectionTimerFires(id)
    \/ ClickOutside
    \/ CloseClick
    \/ \E r \in BagToSet(inflight) : \E o \in Outcomes : Settle(r, o)

SpecClose == Init /\ [][NextClose]_vars

\* the application, with a user of the hook that also calls what it returns
Next ==
    \/ NextApp
    \/ Retry
    \/ Reset

Spec == Init /\ [][Next]_vars

\* the phrases the timer's callback can bind
BoundTexts == {LimitedText(Trim(s)) : s \in {x \in Strings : Len(Trim(x)) > 0}}

\* the state updates of the timer's callback for a non-empty selection whose
\* first words are text, with the re-render and the effects that follow them
ShowPhrase(text) ==
    /\ selectedText' = text
    /\ showPopup' = TRUE
    /\ SetHook(CommitEffects(Hook, selectedText, showPopup, text, TRUE))
    /\ dismissed' = FALSE
    /\ UNCHANGED <<liveSelection, selectionTimeout, timers, restVars>>

\* some fetch of the hook settles
SettleSome == \E r \in BagToSet(inflight) : \E o \in Outcomes : Settle(r, o)

\* the hook and its popup under any sequence of phrases shown, closings, retries,
\* resets and settling fetches: the selection and its timer are left out, every
\* phrase the viewer can bind may be shown at any time
NextHook ==
    \/ \E text \in BoundTexts : ShowPhrase(text)
    \/ OnClose
    \/ Retry
    \/ Reset
    \/ SettleSome

SpecHook == Init /\ [][NextHook]_vars

\* with a network whose calls all end: a fetch in flight is not left unsettled
\* forever
SpecLive == SpecHook /\ WF_vars(SettleSome)

\* the application, mounted and unmounted
NextLifecycle ==
    \/ NextApp
    \/ Unmount
    \/ RerunSelectionEffect
    \/ \E r \in BagToSet(inflight) : SettleAfterUnmount(r)

SpecLifecycle == Init /\ [][NextLifecycle]_vars

\* The page is reloaded: every component is mounted anew, the state initialisers
\* of pageNumber and scale read localStorage, and the persistence effects run.
Reload ==
    LET p == IF TruthyMsg(storage.pageNumber) THEN ParseInt(storage.pageNumber) ELSE 1
        s == IF TruthyMsg(storage.scale) THEN ParseFloat(storage.scale)
             ELSE DefaultScale
    IN  /\ pageNumber' = p
        /\ scale' = s
        /\ numPages' = 0
        /\ storage' = SavePageNumber(SaveScale(storage, s), p)
        /\ liveSelection' = << >>
        /\ selectionTimeout' = 0
        /\ timers' = {}
        /\ selectedText' = << >>
        /\ showPopup' = FALSE
        /\ translation' = ""
        /\ isLoading' = FALSE
        /\ error' = Null
        /\ ankiStatus' = NoAnki
        /\ inflight' = EmptyBag
        /\ apiCall' = NoCall
        /\ mounted' = TRUE
        /\ popup' = NoPopup
        /\ dismissed' = FALSE
        /\ app' = Mounted(NoApp, host).app
        /\ host' = Mounted(NoApp, host).host

\* the document viewer: pages, zoom, files and reloads
NextViewer ==
    \/ ZoomIn
    \/ ZoomOut
    \/ ResetZoom
    \/ GoToPrevPage
    \/ GoToNextPage
    \/ OnFileChange
    \/ \E n \in PageCounts : OnDocumentLoadSuccess(n)
    \/ Reload

SpecViewer == Init /\ [][NextViewer]_vars

\* a TranslationPopup shown at selections anywhere in the page, and hidden
NextPopup ==
    \/ \E sel \in SelectionRects : \E size \in PopupSizes : \E viewport \in Viewports :
          PopupShownAt(sel, size, viewport)
    \/ PopupHidden

SpecPopup == Init /\ [][NextPopup]_vars

NextApi ==
    \/ \E request \in ApiRequests : TranslateText(request)
    \/ \E o \in ApiOutcomes : ApiSettle(o)
    \/ ApiDone

SpecApi == Init /\ [][NextApi]_vars

\* the page is loaded in a browser or in Telegram, App is not yet rendered
InitTheme ==
    /\ liveSelection = << >>
    /\ selectionTimeout = 0
    /\ timers = {}
    /\ selectedText = << >>
    /\ showPopup = FALSE
    /\ translation = ""
    /\ isLoading = FALSE
    /\ error = Null
    /\ ankiStatus = NoAnki
    /\ inflight = EmptyBag
    /\ apiCall = NoCall
    /\ mounted = FALSE
    /\ popup = NoPopup
    /\ pageNumber = 1
    /\ numPages = 0
    /\ scale = DefaultScale
    /\ storage = [scale |-> Null, pageNumber |-> Null]
    /\ dismissed = FALSE
    /\ host \in Hosts
    /\ app = NoApp

\* App in its host: the mount, then what the host and the window tell it
NextTheme ==
    \/ AppMount
    \/ \E scheme \in ColorSchemes : \E params \in ThemeParamsValues :
          HostThemeChanged(scheme, params)
    \/ \E height \in StableHeights : HostViewportChanged(height)
    \/ \E height \in InnerHeights : WindowResize(height)

SpecTheme == InitTheme /\ [][NextTheme]_vars

\* the pages of the documents opened, in a browser or in Telegram: buttons,
\* swipes, files, loads and reloads
NextPages ==
    \/ AppMount
    \/ GoToPrevPage
    \/ GoToNextPage
    \/ \E right \in BOOLEAN : Swipe(right)
    \/ \E id \in timers : SelectionTimerFires(id)
    \/ OnFileChange
    \/ \E n \in PageCounts : OnDocumentLoadSuccess(n)
    \/ Reload

SpecPages == InitTheme /\ [][NextPages]_vars

\* the buttons of the viewer, its files and its documents, while the phrase 'a'
\* is shown, translated and closed
NextChrome ==
    \/ ShowPhrase(<<"a">>)
    \/ OnClose
    \/ SettleSome
    \/ ZoomIn
    \/ ZoomOut
    \/ ResetZoom
    \/ GoToPrevPage
    \/ GoToNextPage
    \/ OnFileChange
    \/ \E n \in PageCounts : OnDocumentLoadSuccess(n)

SpecChrome == Init /\ [][NextChrome]_vars

-----------------------------------------------------------------------------
(* Vocabulary of the claims *)

\* the request translate() builds for the bound phrase
CurrentRequest == [text |-> selectedText, body |-> Trim(selectedText)]

\* the lifecycle state Idle
IsIdle ==
    /\ translation = ""
    /\ error = Null
    /\ ankiStatus = NoAnki
    /\ ~isLoading

-----------------------------------------------------------------------------
(* C1 *)

\* C1: when a request settles that was dispatched for a phrase that is no longer
\* the bound phrase, the result, the error, the side-effect status and the loading
\* flag are left as they were.
C1_StaleResolutionDiscarded ==
    [][\A r \in BagToSet(inflight) : \A o \in Outcomes :
         (r.text # selectedText /\ Settle(r, o)) => UNCHANGED hookVars]_vars

(* C2 *)

\* C2: after reset (here: the popup was hidden, which resets the machine to Idle),
\* the settling of a request still outstanding leaves the machine in Idle.
C2_ResetAbandonsInFlight ==
    [][\A r \in BagToSet(inflight) : \A o \in Outcomes :
         (~showPopup /\ IsIdle /\ Settle(r, o)) => IsIdle']_vars

(* C3 *)

C4_HungRequestStaysPending ==
    [][(/\ isLoading
        /\ showPopup /\ showPopup'
        /\ selectedText' = selectedText
        /\ CopiesIn(CurrentRequest, inflight) = 1
        /\ CopiesIn(CurrentRequest, inflight') = 1
        /\ ~Retry
        /\ ~Reset) => isLoading']_vars

(* C5 *)

\* C5: at most one of {loading, non-empty result, non-null error} holds.
C5_ExactlyOneState ==
    /\ ~(isLoading /\ Truthy(translation))
    /\ ~(isLoading /\ error # Null)
    /\ ~(Truthy(translation) /\ error # Null)

(* C6 *)

\* the request body fails the local shape check, in the words of the claim
FailsShapeCheck(request) ==
    \/ Len(request.text) = 0
    \/ request.source_lang = UndefinedMsg \/ Len(request.source_lang) # 2
    \/ request.target_lang = UndefinedMsg \/ Len(request.target_lang) # 2

\* C6: a translateText call whose request fails the local shape check has sent
\* nothing to the network and has rejected at once with a validation error.
C6_ValidationRejection ==
    (apiCall.phase # "none" /\ FailsShapeCheck(apiCall.request)) =>
        /\ apiCall.phase = "rejected"
        /\ ~apiCall.sent
        /\ apiCall.error.name = "TranslationApiError"
        /\ apiCall.error.statusCode = 400
        /\ SubSeq(apiCall.error.message, 1, 2) = <<"Validation", "error:">>

\* translateText({text: '', source_lang: 'en', target_lang: 'ru'}) has rejected
C6_Witness ==
    /\ apiCall.phase = "rejected"
    /\ ~apiCall.sent
    /\ apiCall.request = [text |-> << >>, source_lang |-> <<"e", "n">>,
                          target_lang |-> <<"r", "u">>]

(* C7 *)

\* C7: no request sent to the network, by the hook or by translateText, carries a
\* text that is empty after trimming.
C7_NoDispatchForBlankText ==
    /\ \A r \in BagToSet(inflight) : Len(Trim(r.text)) > 0
    /\ (apiCall.phase # "none" /\ apiCall.sent) => Len(Trim(apiCall.request.text)) > 0

(* C8 *)

\* C8: the settling of a request with a success status and a body without the
\* translated-text field leaves the machine Failed: the error is set.
C8_MissingTranslationFails ==
    [][\A r \in BagToSet(inflight) : \A o \in OkResponses :
         (o.translation = Undefined /\ Settle(r, o)) => error' # Null]_vars

(* C9 *)

\* C9: when the request for the bound phrase settles with a success status and a
\* body containing the translation t, the result is t, the error is null and the
\* loading flag is false.
C9_RoundTripSuccess ==
    [][\A r \in BagToSet(inflight) : \A o \in OkResponses :
         (r.text = selectedText /\ o.translation # Undefined /\ Settle(r, o)) =>
            /\ translation' = o.translation
            /\ error' = Null
            /\ ~isLoading']_vars

(* C10 *)

\* C10: the settling of the bound phrase's request with a translation and an Anki
\* error leaves the machine Succeeded with a side-effect-failure status; and no
\* success response changes the translation error.
C10_SideEffectIndependence ==
    [][\A r \in BagToSet(inflight) : \A o \in OkResponses :
         /\ (/\ r.text = selectedText
             /\ Truthy(o.translation)
             /\ Truthy(o.ankiError)
             /\ o.ankiStatus # "added"
             /\ Settle(r, o)) =>
                /\ translation' = o.translation
                /\ error' = Null
                /\ ~isLoading'
                /\ ankiStatus' = [success |-> FALSE, error |-> o.ankiError]
         /\ Settle(r, o) => error' = error]_vars

(* C11 *)

\* C11: whenever the popup is rendered, exactly one of the loading indicator, the
\* error message, the translated text and the placeholder is shown, and the Anki
\* badge is shown only together with the translated text.
C11_OneBlockShown ==
    Rendered => (BlocksShown = 1 /\ (ShowsAnkiBadge => ShowsTranslation))

\* the popup is rendered with an error, a result and an Anki status all stored
C11_Witness ==
    /\ Rendered
    /\ ~isLoading
    /\ error # Null
    /\ Truthy(translation)
    /\ ankiStatus # NoAnki

(* C12 *)

\* the outcomes of a fetch that end in the catch block
FailureOutcomes == Rejections \cup ErrorResponses \cup BadJsonResponses

\* C12: a failed request leaves the fixed "cannot connect" message exactly when
\* the fetch itself was rejected (a transport failure); a non-success response
\* whose body supplies a message leaves that message unchanged; and the generic
\* message is left only when the failure carries no message.
C12_ErrorMessagePolicy ==
    [][\A r \in BagToSet(inflight) : \A o \in FailureOutcomes :
         Settle(r, o) =>
            /\ (error' = ConnectMessage) <=> (o.type = "reject")
            /\ (o.type = "response" /\ ~o.ok /\ TruthyMsg(o.message))
                   => error' = o.message
            /\ (error' = GenericMessage) => ~TruthyMsg(o.message)]_vars

(* C13 *)

\* C13: a non-success HTTP status leaves the hook failed (not loading, an error
\* stored) with the message the response body supplies, or else the message
\* derived from the HTTP status; and it leaves the stored translation alone.
C13_RemoteError ==
    [][\A r \in BagToSet(inflight) : \A o \in ErrorResponses :
         Settle(r, o) =>
            /\ ~isLoading'
            /\ error' = IF TruthyMsg(o.message) THEN o.message
                                                ELSE HttpErrorMessage(o)
            /\ translation' = translation]_vars

(* C14 *)

\* the statusCode the failure of a fetch outcome is classified as: 0 transport,
\* the HTTP status for a non-success response, 400 for a body that fails the
\* response schema, 500 for anything else (a body that is not JSON)
ExpectedStatusCode(o) ==
    IF o.type = "reject" THEN 0
    ELSE IF ~o.ok THEN o.status
    ELSE IF ~o.json THEN 500
    ELSE 400

\* C14: translateText rejects only with a TranslationApiError; its statusCode is
\* 400 when the request fails validation, and otherwise classifies the settled
\* fetch (0 transport, HTTP status, 400 response validation, 500 other); and it
\* resolves only with a body that passed the response schema.
C14_StatusCodeClassifies ==
    [][/\ \A request \in ApiRequests :
            (TranslateText(request) /\ apiCall'.phase = "rejected")
                => apiCall'.error = CatchZod(RequestIssues(request))
       /\ \A o \in ApiOutcomes :
            ApiSettle(o) =>
               /\ apiCall'.phase = "rejected" =>
                     /\ apiCall'.error.name = "TranslationApiError"
                     /\ apiCall'.error.statusCode = ExpectedStatusCode(o)
               /\ apiCall'.phase = "resolved" => ResponseIssues(o) = << >>]_vars

(* C15 *)

\* the step sends a request: some request has more copies in flight after it
Dispatches ==
    \E x \in BagToSet(inflight') : CopiesIn(x, inflight') > CopiesIn(x, inflight)

\* C15: a request is dispatched only by an explicit retry, by a change of the
\* bound phrase or by the popup being shown again; the settling of a request
\* with a failure removes that request and dispatches nothing.
C15_NoAutomaticRetry ==
    [][/\ Dispatches =>
            \/ Retry
            \/ selectedText' # selectedText
            \/ (~showPopup /\ showPopup')
       /\ \A r \in BagToSet(inflight) : \A o \in FailureOutcomes :
            Settle(r, o) => inflight' = inflight (-) SetToBag({r})]_vars

\* a request has failed: the popup shows its error and nothing is in flight
C15_Witness == Rendered /\ ShowsError /\ inflight = EmptyBag

(* C16 *)

\* C16: retry() called while the hook is not loading and a non-empty phrase is
\* bound leaves the hook loading with no error, and adds exactly one request, the
\* one built from the bound phrase; the phrase itself does not change.
C16_RetryDispatchesOnce ==
    [][(Retry /\ ~isLoading /\ selectedText # << >>) =>
          /\ isLoading'
          /\ error' = Null
          /\ inflight' = inflight (+) SetToBag({CurrentRequest})
          /\ selectedText' = selectedText]_vars

\* retry() has acted on a hook that was not loading: the popup is hidden (its
\* closing reset the hook) and the hook is loading the bound phrase
C16_Witness ==
    /\ ~showPopup /\ isLoading /\ error = Null
    /\ CopiesIn(CurrentRequest, inflight) >= 1

(* C17 *)

\* the step arms the hook: afterwards the popup is shown (enabled) with a
\* non-empty phrase, and the phrase is new or the popup was hidden before
ArmStep ==
    /\ showPopup'
    /\ selectedText' # << >>
    /\ (selectedText' # selectedText \/ ~showPopup)

\* C17: every step that arms the hook adds exactly one request, the one for the
\* phrase then bound; and a step that dispatches a request without being an
\* explicit retry is a step that arms the hook, so nothing is dispatched
\* automatically while the popup is hidden or no phrase is bound.
C17_AutomaticArming ==
    [][/\ ArmStep =>
            inflight' = inflight (+) SetToBag({[text |-> selectedText',
                                                body |-> Trim(selectedText')]})
       /\ (Dispatches /\ ~Retry) => ArmStep]_vars

\* the hook was armed twice with the same phrase (shown, hidden, shown again):
\* two requests for the bound phrase are in flight
C17_Witness ==
    showPopup /\ isLoading /\ CopiesIn(CurrentRequest, inflight) = 2

(* C18 *)

\* C18: from any state, reset() leaves the hook idle (no result, no error, no
\* Anki status, not loading), and a second reset() right after it changes
\* nothing: reset twice is reset once.
C18_ResetIdempotent ==
    [][Reset =>
          /\ IsIdle'
          /\ ResetHook(Hook') = Hook'
          /\ ResetHook(ResetHook(Hook)) = Hook']_vars

\* reset() has acted on a shown popup whose request is still in flight
C18_Witness == showPopup /\ IsIdle /\ inflight # EmptyBag

(* C19 *)

\* C19: when every fetch in flight eventually settles, a hook that is loading
\* eventually is not loading: whatever arming, phrase changes and retries
\* happen, it does not stay loading forever.
C19_LeavesPending == isLoading ~> ~isLoading

\* a dispatched request has settled with a result: the popup shows it, nothing
\* is loading and nothing is in flight
C19_Witness ==
    /\ showPopup /\ ~isLoading /\ inflight = EmptyBag
    /\ Truthy(translation) /\ error = Null

(* C20 *)

\* C20: at most one debounce timer is pending at any time; each mouseup or
\* touchend leaves exactly the timer it started pending, whatever was pending
\* before, so that a burst of events leaves one timer, that of the last event;
\* and when that timer fires (the one read of the selection) none is left to
\* fire again.
C20_DebounceSupersedes ==
    [][/\ Cardinality(timers') <= 1
       /\ HandleTextSelection =>
             /\ timers' = {selectionTimeout'}
             /\ selectionTimeout' \notin ClearTimeout(timers, selectionTimeout)
       /\ (\E id \in timers : SelectionTimerFires(id)) => timers' = {}]_vars

\* an event came after an earlier emission had shown the popup: the handle the
\* ref still held was cleared and the one timer pending is the new one
C20_Witness ==
    /\ showPopup /\ selectionTimeout # 0 /\ timers = {selectionTimeout}

(* C21 *)

\* C21: the unmount of PdfViewer and the re-run of its selection effect leave no
\* timer pending; after the unmount the listeners are gone for good, and no step
\* reads the selection, changes the bound phrase, shows or hides the popup or
\* changes the translation state.
C21_TeardownCancelsDebounce ==
    [][/\ Unmount => (timers' = {} /\ ~mounted')
       /\ RerunSelectionEffect => timers' = {}
       /\ ~mounted =>
             /\ ~mounted'
             /\ UNCHANGED <<selectionTimeout, timers, selectedText, showPopup,
                            hookVars>>]_vars

\* PdfViewer was unmounted after an event whose timer had not shown a phrase:
\* the ref holds a handle, no timer is pending, and a phrase is selected
C21_Witness ==
    /\ ~mounted /\ selectionTimeout # 0 /\ timers = {}
    /\ selectedText = << >> /\ Trim(liveSelection) # << >>

(* C22 *)

\* the positions of s where a word starts, and how many words s has
WordStarts(s) == {i \in 1..Len(s) : s[i] # " " /\ (i = 1 \/ s[i - 1] = " ")}

WordCount(s) == Cardinality(WordStarts(s))

\* the n-th word of s, for n in 1..WordCount(s)
NthWord(s, n) ==
    LET start == CHOOSE i \in WordStarts(s) :
                     Cardinality({j \in WordStarts(s) : j < i}) = n - 1
        end == CHOOSE j \in start..Len(s) :
                     /\ \A m \in start..j : s[m] # " "
                     /\ (j = Len(s) \/ s[j + 1] = " ")
    IN  SubSeq(s, start, end)

\* every space of s stands alone between two words
SingleSpaced(s) ==
    \A i \in 1..Len(s) :
        s[i] = " " => (i > 1 /\ i < Len(s) /\ s[i - 1] # " " /\ s[i + 1] # " ")

\* C22: when the timer reads a selection that is not blank, the phrase it binds
\* has the first 10 words of the selection (all of them when there are at most
\* 10), in their order, with exactly one space between two of them and no
\* space around them.
C22_WordLimit ==
    [][\A id \in timers :
          (SelectionTimerFires(id) /\ Trim(liveSelection) # << >>) =>
             /\ WordCount(selectedText') = Min(WordCount(liveSelection), WordLimit)
             /\ \A n \in 1..WordCount(selectedText') :
                   NthWord(selectedText', n) = NthWord(liveSelection, n)
             /\ SingleSpaced(selectedText')]_vars

\* a selection of more than 10 words was read and its phrase is shown
C22_Witness ==
    /\ WordCount(liveSelection) > WordLimit
    /\ showPopup /\ WordCount(selectedText) = WordLimit

(* C23 *)

\* C23: when the timer reads a selection that is empty or only whitespace, the
\* bound phrase stays as it was, the popup is hidden afterwards, and the
\* requests in flight are the same as before: none dispatched, none removed.
C23_BlankSelectionHides ==
    [][\A id \in timers :
          (SelectionTimerFires(id) /\ Trim(liveSelection) = << >>) =>
             /\ selectedText' = selectedText
             /\ ~showPopup'
             /\ inflight' = inflight]_vars

\* a blank selection was read while a phrase was shown and its request in
\* flight: the popup is hidden, the phrase still bound, the request still out
C23_Witness ==
    /\ ~showPopup /\ selectedText # << >> /\ Trim(liveSelection) = << >>
    /\ selectionTimeout # 0 /\ timers = {} /\ BagIn(CurrentRequest, inflight)

(* C24 *)

\* C24: the popup is in the document exactly when show is true and a phrase is
\* bound, and in every state where the popup is hidden the translation state is
\* idle: no result, no error, no Anki status, not loading.
C24_HiddenIsIdle ==
    /\ Rendered <=> (showPopup /\ selectedText # << >>)
    /\ ~showPopup => IsIdle

(* C25 *)

\* C25: a pointer-down outside the shown popup hides it when the selection in
\* the page is blank at that moment and leaves it shown when it is not; a
\* pointer-down inside the popup leaves it shown.
C25_OutsideClickDismisses ==
    [][/\ ClickOutside => (showPopup' <=> Trim(liveSelection) # << >>)
       /\ ClickInside => showPopup']_vars

\* the popup is shown over a selection that is still in the page, no timer
\* pending: a pointer-down outside leaves it shown
C25_Witness ==
    /\ Rendered /\ Trim(liveSelection) # << >> /\ timers = {} /\ ~isLoading

(* C26 *)

\* C26: whenever the popup is in the document its close button can be pressed
\* and the press hides the popup, whatever the selection in the page and
\* whatever the translation state; and every press leaves the popup hidden.
C26_CloseAlwaysCloses ==
    /\ [](Rendered /\ mounted => ENABLED (CloseButton /\ ~showPopup'))
    /\ [][CloseButton => ~showPopup']_vars

\* the popup was closed while its request was in flight and the selection was
\* still in the page, with no timer pending
C26_Witness ==
    /\ ~showPopup /\ Trim(liveSelection) # << >> /\ timers = {}
    /\ selectedText # << >> /\ inflight # EmptyBag /\ IsIdle

(* C27 *)

\* C27: after the popup was shown at a selection and its position adjusted, a
\* popup that is no wider than the viewport less the two margins has its right
\* edge at most at the viewport's width less the margin and its left edge at
\* least at the margin, wherever it was before.
C27_HorizontalFit ==
    [][\A sel \in SelectionRects : \A size \in PopupSizes : \A viewport \in Viewports :
          (/\ PopupShownAt(sel, size, viewport)
           /\ size.width <= viewport.width - 2 * Margin) =>
             LET rect == PopupRect(popup'.adjustedPosition, size)
             IN  /\ rect.right <= viewport.width - Margin
                 /\ rect.left >= Margin]_vars

(* C28 *)

\* C28: when the popup put above the selection (its bottom at the anchor) would
\* have its top above the top margin, then after the popup was shown and its
\* position adjusted its top edge is at or below the selection's top, and not
\* above the top margin.
C28_VerticalFlip ==
    [][\A sel \in SelectionRects : \A size \in PopupSizes : \A viewport \in Viewports :
          (/\ PopupShownAt(sel, size, viewport)
           /\ PopupRect(AnchorOf(sel), size).top < Margin) =>
             LET rect == PopupRect(popup'.adjustedPosition, size)
             IN  /\ rect.top >= sel.top
                 /\ rect.top >= Margin]_vars

(* C29 *)

\* C29: after every step the scale is between 50% and 300%; zoom-in at 300% and
\* zoom-out at 50% leave it as it is, and reset-zoom makes it 100%.
C29_ZoomRange ==
    [][/\ MinScale <= scale' /\ scale' <= MaxScale
       /\ (ZoomIn /\ scale = MaxScale) => scale' = scale
       /\ (ZoomOut /\ scale = MinScale) => scale' = scale
       /\ ResetZoom => scale' = DefaultScale]_vars

\* the scale has reached 300% in a document that is loaded
C29_Witness == scale = MaxScale /\ numPages # 0

(* C30 *)

\* C30: localStorage always holds the current page number and the current scale
\* as strings, and the reload of the page starts the viewer with the page number
\* and the scale it had before the reload.
C30_PersistenceRoundTrip ==
    /\ [](/\ storage.pageNumber = NatToString(pageNumber)
          /\ storage.scale = ScaleToString(scale))
    /\ [][Reload => (pageNumber' = pageNumber /\ scale' = scale)]_vars

\* the page was reloaded on page 12 at a scale other than 100%: no document is
\* loaded yet
C30_Witness == numPages = 0 /\ pageNumber = 12 /\ scale # DefaultScale


(* C31 *)

\* C31: while the popup is dismissed by its close button and the selection in the
\* page is still the one it had then, no step shows the popup and no step
\* dispatches a request; so the timer of the pointer release that belongs to the
\* click on the button does not show it again.
C31_CloseStaysClosed ==
    [][dismissed => (~showPopup' /\ ~Dispatches)]_vars

(* C32 *)

\* C32: at no time are two requests for the bound phrase in flight.
C32_OneOutstanding == CopiesIn(CurrentRequest, inflight) <= 1

(* C33 *)

\* the popup put at the anchor at lies within the margins of the viewport
FitsAt(at, size, viewport) ==
    LET rect == PopupRect(at, size)
    IN  /\ rect.left >= Margin
        /\ rect.right <= viewport.width - Margin
        /\ rect.top >= Margin
        /\ rect.bottom <= viewport.height - Margin

\* C33: whenever the popup is shown at a selection, the first time included, and
\* the popup put at the selection's anchor lies within the margins of the
\* viewport, the adjusted position is that anchor, wherever the popup was before.
C33_AdjustedFromNewAnchor ==
    [][\A sel \in SelectionRects : \A size \in PopupSizes : \A viewport \in Viewports :
          (/\ PopupShownAt(sel, size, viewport)
           /\ FitsAt(AnchorOf(sel), size, viewport)) =>
             popup'.adjustedPosition = AnchorOf(sel)]_vars

(* C34 *)

\* C34: whenever the popup is hidden, by a click outside, by its close button or
\* because the selection read was blank, the viewer holds no phrase.
C34_PhraseDiscarded == ~showPopup => selectedText = << >>

(* C35 *)

\* C35: whenever a document is loaded the page number is between 1 and the
\* number of its pages, whatever page the viewer started on and whatever buttons
\* were pressed and swipes made; previous-page on page 1 and next-page on the
\* last page leave the page number as it is.
C35_PageBounds ==
    /\ [](numPages # 0 => (1 <= pageNumber /\ pageNumber <= numPages))
    /\ [][/\ (GoToPrevPage /\ pageNumber = 1) => pageNumber' = pageNumber
          /\ (GoToNextPage /\ numPages # 0 /\ pageNumber = numPages) =>
                 pageNumber' = pageNumber]_vars

\* in Telegram, on the last page of a document of more than one page, after a
\* swipe whose timer is pending
C35_Witness ==
    /\ app.isTelegram /\ numPages > 1 /\ pageNumber = numPages /\ timers # {}

(* C36 *)

\* what the translation is made of: the bound phrase, the popup's visibility,
\* the hook's state and its requests
translationVars == <<selectedText, showPopup, hookVars, inflight>>

\* C36: the page buttons, the zoom buttons, zoom reset, the choice of a file and
\* the load of a document leave the bound phrase, the popup's visibility, the
\* result, the error, the loading flag, the Anki status and the requests in
\* flight as they are; and no step at all changes both the page, the page count,
\* the scale or what is stored of them, and any of these.
C36_ChromeLeavesTranslation ==
    [][/\ (\/ GoToPrevPage \/ GoToNextPage \/ ZoomIn \/ ZoomOut \/ ResetZoom
           \/ OnFileChange \/ \E n \in PageCounts : OnDocumentLoadSuccess(n))
             => UNCHANGED translationVars
       /\ documentVars' # documentVars => UNCHANGED translationVars]_vars

\* a document was loaded and zoomed while the popup shows a phrase whose request
\* is in flight
C36_Witness ==
    /\ Rendered /\ isLoading /\ inflight # EmptyBag
    /\ numPages # 0 /\ scale # DefaultScale /\ pageNumber > 1

(* C37 *)

\* C37: in Telegram, once App is mounted the theme hook holds the colour scheme
\* and the theme parameters the WebApp object has, and its handler is subscribed
\* to 'themeChanged'; with the handler subscribed this stays so after every
\* change of the theme.
C37_ThemeSynced ==
    (app.mounted /\ host.webApp /\ host.sdkLoaded) =>
        /\ app.colorScheme = host.colorScheme
        /\ app.themeParams = host.themeParams
        /\ app.themeChanged = 1
=============================================================================
